---- MODULE Spec2Model ----
(***************************************************************************)
(* Model of the rutil crate: the command line option structures of cli.rs  *)
(* (AssertOptions, BugOptions and the functions deriving them from the     *)
(* parsed argument matches) and the naming environment of naming.rs.       *)
(*                                                                         *)
(* Rust values are modelled as follows.                                    *)
(*   Option<T>           the empty set (None) or a singleton set (Some(v)) *)
(*   HashMap<String, usize>  a function whose domain is the set of keys    *)
(*   ArgMatches          the set of argument ids present on the command    *)
(*                       line (all arguments used here are plain flags)    *)
(***************************************************************************)
EXTENDS Integers, Sequences, FiniteSets, TLC

\* argms           the ArgMatches handed to the parse functions of cli.rs:
\*                 the set of flags present on the command line
\* assert_options  the AssertOptions built by parse_assert_argument_matches
\*                 (None until it is built)
\* bug_options     the BugOptions built by parse_bug_argument_matches
\*                 (None until it is built)
\* envs            the NamingEnv values callers hold, in order of creation;
\*                 envs[1] is NamingEnv::new()
\* calls           the create_new_name_index calls made so far: the receiver
\*                 (an index of envs), the name and the returned index
\* global_DEBUG_MODE, global_DEEP_DEBUG_MODE, global_DISABLE_PRINTING
\*                 the statics DEBUG_MODE, DEEP_DEBUG_MODE and
\*                 DISABLE_PRINTING of crate::global
\* applied         the CoreOptions apply_to_core_flags was called on so far,
\*                 oldest first
VARIABLES argms, assert_options, bug_options, envs, calls,
          global_DEBUG_MODE, global_DEEP_DEBUG_MODE, global_DISABLE_PRINTING,
          applied

cliVars == <<argms, assert_options, bug_options>>
namingVars == <<envs, calls>>
coreVars ==
    <<global_DEBUG_MODE, global_DEEP_DEBUG_MODE, global_DISABLE_PRINTING, applied>>
vars ==
    <<argms, assert_options, bug_options, envs, calls,
      global_DEBUG_MODE, global_DEEP_DEBUG_MODE, global_DISABLE_PRINTING, applied>>

(***************************************************************************)
(* Bounds of the model.                                                    *)
(***************************************************************************)
\* Number of NamingEnv values kept alive (the initial one included).
MaxEnvs == 5
\* Number of distinct names handed to create_new_name_index.
NumNames == 2
\* Number of apply_to_core_flags calls followed.
MaxApplies == 3

AllNames == <<"x", "y", "z", "w">>
Names == {AllNames[i] : i \in 1..NumNames}

(***************************************************************************)
(* Option<T>.                                                              *)
(***************************************************************************)
None == {}
Some(v) == {v}

(***************************************************************************)
(* cli.rs: argument ids                                                    *)
(***************************************************************************)
\* mod assert_args
ASSERT_ALL == "assert-all"
ASSERT_INTERVAL == "assert-interval"
ASSERT_ALIAS == "assert-alias"

\* mod bug_args
INTEGER_ALL == "bug-integer-all"
DIVISION_BY_ZERO == "division-by-zero"
INTEGER_OVERFLOW == "bug-integer-overflow"
INTEGER_UNDERFLOW == "bug-integer-underflow"
INTEGER_COERCION_ERR == "bug-integer-coercion-error"
MEMORY_ALL == "bug-memory-all"
NUMERIC_TRUNCATION_ERR == "bug-numeric-truncation-error"
BUG_ALL == "bug-all"
TYPE_CONVERSION_ERR == "bug-type-conversion"

\* The flags configure_assert_arguments registers.
AssertArgs == {ASSERT_ALL, ASSERT_INTERVAL, ASSERT_ALIAS}

\* The flags configure_bug_arguments registers.
BugArgs ==
    {INTEGER_ALL, DIVISION_BY_ZERO, INTEGER_OVERFLOW, INTEGER_UNDERFLOW,
     INTEGER_COERCION_ERR, TYPE_CONVERSION_ERR, NUMERIC_TRUNCATION_ERR,
     MEMORY_ALL, BUG_ALL}

\* ArgMatches::is_present
is_present(a, id) == id \in a

(***************************************************************************)
(* cli.rs: AssertOptions                                                   *)
(***************************************************************************)
\* parse_assert_argument_matches
parse_assert_argument_matches(a) ==
    [assert_all |-> is_present(a, ASSERT_ALL),
     assert_interval |-> is_present(a, ASSERT_INTERVAL),
     assert_alias |-> is_present(a, ASSERT_ALIAS)]

\* AssertOptions::need_to_check_aliasing
need_to_check_aliasing(self) == self.assert_all \/ self.assert_alias

\* AssertOptions::need_to_check_interval
need_to_check_interval(self) == self.assert_all \/ self.assert_alias

\* AssertOptions::need_to_check_assertions
need_to_check_assertions(self) ==
    need_to_check_aliasing(self) \/ need_to_check_interval(self)

(***************************************************************************)
(* cli.rs: BugOptions                                                      *)
(***************************************************************************)
\* Mutant: bug-all does not switch on the integer bugs.
parse_bug_argument_matches_all_bugs_dropped(a) ==
    LET all_bugs == is_present(a, BUG_ALL)
        all_integer_bugs == is_present(a, INTEGER_ALL)
        integer_overflow == is_present(a, INTEGER_OVERFLOW) \/ all_integer_bugs
        integer_underflow == is_present(a, INTEGER_UNDERFLOW) \/ all_integer_bugs
        numeric_truncation_error ==
            is_present(a, NUMERIC_TRUNCATION_ERR) \/ all_integer_bugs
        division_by_zero == is_present(a, DIVISION_BY_ZERO) \/ all_integer_bugs
        integer_coercion_error ==
            is_present(a, INTEGER_COERCION_ERR) \/ all_integer_bugs
        type_conversion_error ==
            is_present(a, TYPE_CONVERSION_ERR) \/ all_integer_bugs
        all_memory_bugs == is_present(a, MEMORY_ALL)
    IN  [division_by_zero |-> division_by_zero,
         integer_coercion_error |-> integer_coercion_error,
         numeric_truncation_error |-> numeric_truncation_error,
         integer_overflow |-> integer_overflow,
         signedness_conversion_error |-> type_conversion_error,
         integer_underflow |-> integer_underflow,
         all_integer_bugs |-> all_integer_bugs,
         all_memory_bugs |-> all_memory_bugs,
         all_bugs |-> all_bugs]

\* Mutant: bug-all switches on all_memory_bugs the way it does all_integer_bugs.
parse_bug_argument_matches_memory_implied(a) ==
    LET all_bugs == is_present(a, BUG_ALL)
        all_integer_bugs == is_present(a, INTEGER_ALL) \/ all_bugs
        integer_overflow == is_present(a, INTEGER_OVERFLOW) \/ all_integer_bugs
        integer_underflow == is_present(a, INTEGER_UNDERFLOW) \/ all_integer_bugs
        numeric_truncation_error ==
            is_present(a, NUMERIC_TRUNCATION_ERR) \/ all_integer_bugs
        division_by_zero == is_present(a, DIVISION_BY_ZERO) \/ all_integer_bugs
        integer_coercion_error ==
            is_present(a, INTEGER_COERCION_ERR) \/ all_integer_bugs
        type_conversion_error ==
            is_present(a, TYPE_CONVERSION_ERR) \/ all_integer_bugs
        all_memory_bugs == is_present(a, MEMORY_ALL) \/ all_bugs
    IN  [division_by_zero |-> division_by_zero,
         integer_coercion_error |-> integer_coercion_error,
         numeric_truncation_error |-> numeric_truncation_error,
         integer_overflow |-> integer_overflow,
         signedness_conversion_error |-> type_conversion_error,
         integer_underflow |-> integer_underflow,
         all_integer_bugs |-> all_integer_bugs,
         all_memory_bugs |-> all_memory_bugs,
         all_bugs |-> all_bugs]

\* parse_bug_argument_matches
parse_bug_argument_matches(a) ==
    LET all_bugs == is_present(a, BUG_ALL)
        all_integer_bugs == is_present(a, INTEGER_ALL) \/ all_bugs
        integer_overflow == is_present(a, INTEGER_OVERFLOW) \/ all_integer_bugs
        integer_underflow == is_present(a, INTEGER_UNDERFLOW) \/ all_integer_bugs
        numeric_truncation_error ==
            is_present(a, NUMERIC_TRUNCATION_ERR) \/ all_integer_bugs
        division_by_zero == is_present(a, DIVISION_BY_ZERO) \/ all_integer_bugs
        integer_coercion_error ==
            is_present(a, INTEGER_COERCION_ERR) \/ all_integer_bugs
        type_conversion_error ==
            is_present(a, TYPE_CONVERSION_ERR) \/ all_integer_bugs
        all_memory_bugs == is_present(a, MEMORY_ALL)
    IN  [division_by_zero |-> division_by_zero,
         integer_coercion_error |-> integer_coercion_error,
         numeric_truncation_error |-> numeric_truncation_error,
         integer_overflow |-> integer_overflow,
         signedness_conversion_error |-> type_conversion_error,
         integer_underflow |-> integer_underflow,
         all_integer_bugs |-> all_integer_bugs,
         all_memory_bugs |-> all_memory_bugs,
         all_bugs |-> all_bugs]

\* Mutant: division_by_zero is left out of the integer bug kinds.
need_to_check_integer_bugs_without_division(self) ==
    \/ self.all_bugs
    \/ self.all_integer_bugs
    \/ self.integer_overflow
    \/ self.integer_underflow
    \/ self.integer_coercion_error
    \/ self.numeric_truncation_error
    \/ self.signedness_conversion_error

\* BugOptions::need_to_check_integer_bugs
need_to_check_integer_bugs(self) ==
    \/ self.all_bugs
    \/ self.all_integer_bugs
    \/ self.division_by_zero
    \/ self.integer_overflow
    \/ self.integer_underflow
    \/ self.integer_coercion_error
    \/ self.numeric_truncation_error
    \/ self.signedness_conversion_error

\* BugOptions::need_to_check_memory_bugs
need_to_check_memory_bugs(self) == self.all_bugs \/ self.all_memory_bugs

\* Mutant: only the memory bugs are consulted.
need_to_check_bugs_memory_only(self) == need_to_check_memory_bugs(self)

\* BugOptions::need_to_check_bugs
need_to_check_bugs(self) ==
    need_to_check_memory_bugs(self) \/ need_to_check_integer_bugs(self)

(***************************************************************************)
(* cli.rs: CoreOptions                                                     *)
(***************************************************************************)
\* The CoreOptions values, by the three fields apply_to_core_flags reads; the
\* struct is public with public fields, so every combination can be built.
\* Its other fields are read by none of the operations modelled here.
CoreOptions ==
    [debug_mode : BOOLEAN, deep_debug_mode : BOOLEAN, disable_printing : BOOLEAN]

\* Mutant: deep-debug mode does not switch on debug mode.
apply_to_core_flags_debug_only(self) ==
    [DEBUG_MODE |-> self.debug_mode,
     DEEP_DEBUG_MODE |-> self.deep_debug_mode,
     DISABLE_PRINTING |-> self.disable_printing]

\* CoreOptions::apply_to_core_flags: the values it assigns to the statics of
\* crate::global.
apply_to_core_flags(self) ==
    [DEBUG_MODE |-> self.debug_mode \/ self.deep_debug_mode,
     DEEP_DEBUG_MODE |-> self.deep_debug_mode,
     DISABLE_PRINTING |-> self.disable_printing]

\* A call self.apply_to_core_flags(): the three statics are assigned; applied
\* records the options of the call.
ApplyToCoreFlags(self) ==
    LET assigned == apply_to_core_flags(self)
    IN  /\ Len(applied) < MaxApplies
        /\ global_DEBUG_MODE' = assigned.DEBUG_MODE
        /\ global_DEEP_DEBUG_MODE' = assigned.DEEP_DEBUG_MODE
        /\ global_DISABLE_PRINTING' = assigned.DISABLE_PRINTING
        /\ applied' = Append(applied, self)
        /\ UNCHANGED <<cliVars, namingVars>>

\* The statics of crate::global before any call of apply_to_core_flags. They
\* are declared outside the files modelled here: each holds a bool, and no
\* value is assumed for its initialiser.
GlobalInit ==
    /\ global_DEBUG_MODE \in BOOLEAN
    /\ global_DEEP_DEBUG_MODE \in BOOLEAN
    /\ global_DISABLE_PRINTING \in BOOLEAN
    /\ applied = <<>>

(***************************************************************************)
(* cli.rs: a tool parses the matches of its command line into the option   *)
(* structures. argms is fixed by the command line; each structure is built *)
(* by its parse function and is Some(options) once built.                  *)
(***************************************************************************)
ParseAssertArgumentMatches ==
    /\ assert_options' = Some(parse_assert_argument_matches(argms))
    /\ UNCHANGED <<argms, bug_options, envs, calls, coreVars>>

ParseBugArgumentMatches ==
    /\ bug_options' = Some(parse_bug_argument_matches(argms))
    /\ UNCHANGED <<argms, assert_options, envs, calls, coreVars>>

(***************************************************************************)
(* naming.rs                                                               *)
(***************************************************************************)
\* HashMap::new()
HashMapNew == [k \in {} |-> 0]

\* HashMap::insert(key, value)
HashMapInsert(h, key, value) ==
    [k \in (DOMAIN h) \cup {key} |-> IF k = key THEN value ELSE h[k]]

\* HashMap::get(key)
HashMapGet(h, key) == IF key \in DOMAIN h THEN Some(h[key]) ELSE None

\* NamingEnv::new
NamingEnvNew ==
    [current_naming_index |-> HashMapNew, naming_index_counter |-> HashMapNew]

\* Mutant: the stored index 0 is not treated as None.
get_current_index_keeps_zero(self, name) ==
    HashMapGet(self.current_naming_index, name)

\* NamingEnv::get_current_index
get_current_index(self, name) ==
    LET found == HashMapGet(self.current_naming_index, name)
    IN  IF found = None THEN None
        ELSE IF found = Some(0) THEN None
        ELSE found

\* Mutant: the index counter is not updated.
create_new_name_index_no_counter(self, name) ==
    LET new_env == self
        found == HashMapGet(self.naming_index_counter, name)
        new_idx == IF found = None THEN 0
                   ELSE (CHOOSE idx \in found : TRUE) + 1
        final_idx == IF new_idx = 0 THEN None ELSE Some(new_idx)
    IN  [idx |-> final_idx,
         env |-> [current_naming_index |->
                      HashMapInsert(new_env.current_naming_index, name, new_idx),
                  naming_index_counter |-> new_env.naming_index_counter]]

\* Mutant: the new environment starts from NamingEnv::new(), not from a copy
\* of the receiver.
create_new_name_index_fresh_env(self, name) ==
    LET new_env == NamingEnvNew
        found == HashMapGet(self.naming_index_counter, name)
        new_idx == IF found = None THEN 0
                   ELSE (CHOOSE idx \in found : TRUE) + 1
        final_idx == IF new_idx = 0 THEN None ELSE Some(new_idx)
    IN  [idx |-> final_idx,
         env |-> [current_naming_index |->
                      HashMapInsert(new_env.current_naming_index, name, new_idx),
                  naming_index_counter |->
                      HashMapInsert(new_env.naming_index_counter, name, new_idx)]]

\* Mutant: the new index repeats the counter instead of advancing it.
create_new_name_index_no_increment(self, name) ==
    LET new_env == self
        found == HashMapGet(self.naming_index_counter, name)
        new_idx == IF found = None THEN 0
                   ELSE (CHOOSE idx \in found : TRUE)
        final_idx == IF new_idx = 0 THEN None ELSE Some(new_idx)
    IN  [idx |-> final_idx,
         env |-> [current_naming_index |->
                      HashMapInsert(new_env.current_naming_index, name, new_idx),
                  naming_index_counter |->
                      HashMapInsert(new_env.naming_index_counter, name, new_idx)]]

\* Mutant: the current index is stored one past the index the counter records.
create_new_name_index_current_ahead(self, name) ==
    LET new_env == self
        found == HashMapGet(self.naming_index_counter, name)
        new_idx == IF found = None THEN 0
                   ELSE (CHOOSE idx \in found : TRUE) + 1
        final_idx == IF new_idx = 0 THEN None ELSE Some(new_idx)
    IN  [idx |-> final_idx,
         env |-> [current_naming_index |->
                      HashMapInsert(new_env.current_naming_index, name, new_idx + 1),
                  naming_index_counter |->
                      HashMapInsert(new_env.naming_index_counter, name, new_idx)]]

\* NamingEnv::create_new_name_index: the returned pair (final_idx, new_env).
create_new_name_index(self, name) ==
    LET new_env == self
        found == HashMapGet(self.naming_index_counter, name)
        new_idx == IF found = None THEN 0
                   ELSE (CHOOSE idx \in found : TRUE) + 1
        final_idx == IF new_idx = 0 THEN None ELSE Some(new_idx)
    IN  [idx |-> final_idx,
         env |-> [current_naming_index |->
                      HashMapInsert(new_env.current_naming_index, name, new_idx),
                  naming_index_counter |->
                      HashMapInsert(new_env.naming_index_counter, name, new_idx)]]

\* Mutant: the call updates the receiver in place as well as returning the
\* new environment.
CreateNewNameIndexInPlace(i, name) ==
    LET r == create_new_name_index(envs[i], name)
    IN  /\ Len(envs) < MaxEnvs
        /\ envs' = Append([envs EXCEPT ![i] = r.env], r.env)
        /\ calls' = Append(calls, [recv |-> i, name |-> name, idx |-> r.idx])
        /\ UNCHANGED <<cliVars, coreVars>>

\* A caller holding the environment envs[i] calls create_new_name_index(name)
\* on it and keeps the returned environment as envs[Len(envs) + 1]; the
\* receiver is borrowed immutably. calls records the call and its result.
CreateNewNameIndex(i, name) ==
    LET r == create_new_name_index(envs[i], name)
    IN  /\ Len(envs) < MaxEnvs
        /\ envs' = Append(envs, r.env)
        /\ calls' = Append(calls, [recv |-> i, name |-> name, idx |-> r.idx])
        /\ UNCHANGED <<cliVars, coreVars>>

InitNaming ==
    /\ envs = <<NamingEnvNew>>
    /\ calls = <<>>
    /\ argms = {}
    /\ assert_options = None
    /\ bug_options = None
    /\ GlobalInit

NextNaming == \E i \in DOMAIN envs, name \in Names : CreateNewNameIndex(i, name)

SpecNaming == InitNaming /\ [][NextNaming]_vars

\* Any command line over the assertion and bug flags; nothing parsed yet.
InitCli ==
    /\ argms \in SUBSET (AssertArgs \cup BugArgs)
    /\ assert_options = None
    /\ bug_options = None
    /\ envs = <<NamingEnvNew>>
    /\ calls = <<>>
    /\ GlobalInit

NextCli == ParseAssertArgumentMatches \/ ParseBugArgumentMatches

SpecCli == InitCli /\ [][NextCli]_vars

\* The statics of crate::global and the calls of apply_to_core_flags alone.
InitCore ==
    /\ GlobalInit
    /\ argms = {}
    /\ assert_options = None
    /\ bug_options = None
    /\ envs = <<NamingEnvNew>>
    /\ calls = <<>>

NextCore == \E self \in CoreOptions : ApplyToCoreFlags(self)

SpecCore == InitCore /\ [][NextCore]_vars

(***************************************************************************)
(* Properties of AssertOptions and BugOptions (checked under SpecCli).     *)
(***************************************************************************)

\* C1: for every combination of the raw assertion flags,
\* need_to_check_interval() = assert_all OR assert_interval; in particular
\* with only assert_alias set it is false while need_to_check_aliasing() is
\* true.
IntervalCheckUsesIntervalFlag ==
    \A o \in assert_options :
        /\ need_to_check_interval(o) =
               (is_present(argms, ASSERT_ALL) \/ is_present(argms, ASSERT_INTERVAL))
        /\ (argms \cap AssertArgs = {ASSERT_ALIAS}) =>
               (need_to_check_aliasing(o) /\ ~need_to_check_interval(o))

\* C5: whenever bug-all is present, all_integer_bugs and every per-kind
\* integer field of the derived BugOptions is true, and
\* need_to_check_integer_bugs() is true.
BugAllEnablesIntegerBugs ==
    \A o \in bug_options :
        is_present(argms, BUG_ALL) =>
            /\ o.all_integer_bugs
            /\ o.division_by_zero
            /\ o.integer_overflow
            /\ o.integer_underflow
            /\ o.integer_coercion_error
            /\ o.numeric_truncation_error
            /\ o.signedness_conversion_error
            /\ need_to_check_integer_bugs(o)

\* Witness of C5: BugOptions derived from a command line whose only bug flag
\* is bug-all.
BugAllAloneParsed ==
    /\ bug_options # None
    /\ argms \cap BugArgs = {BUG_ALL}

\* C6: all_memory_bugs equals the raw bug-memory-all flag alone, and
\* need_to_check_memory_bugs() is true exactly when bug-all or
\* bug-memory-all is present.
MemoryBugsNotForcedByBugAll ==
    \A o \in bug_options :
        /\ o.all_memory_bugs = is_present(argms, MEMORY_ALL)
        /\ need_to_check_memory_bugs(o) =
               (is_present(argms, BUG_ALL) \/ is_present(argms, MEMORY_ALL))

\* Witness of C6: BugOptions derived with bug-all present and bug-memory-all
\* absent: all_memory_bugs is false and memory bugs are still checked.
BugAllWithoutMemoryAllParsed ==
    \E o \in bug_options :
        /\ is_present(argms, BUG_ALL)
        /\ ~is_present(argms, MEMORY_ALL)
        /\ ~o.all_memory_bugs
        /\ need_to_check_memory_bugs(o)

\* C7: need_to_check_assertions() = need_to_check_aliasing() OR
\* need_to_check_interval(), and it is true exactly when at least one of
\* assert-all, assert-alias, assert-interval is present.
AssertionsCheckedIffAnyAssertFlag ==
    \A o \in assert_options :
        /\ need_to_check_assertions(o) =
               (need_to_check_aliasing(o) \/ need_to_check_interval(o))
        /\ need_to_check_assertions(o) = (argms \cap AssertArgs # {})

\* C11: for every combination of raw bug flags, need_to_check_bugs() is
\* true exactly when need_to_check_integer_bugs() or
\* need_to_check_memory_bugs() is true of the same BugOptions.
BugsCheckedIffIntegerOrMemory ==
    \A o \in bug_options :
        need_to_check_bugs(o) =
            (need_to_check_integer_bugs(o) \/ need_to_check_memory_bugs(o))

\* Witness of C11: BugOptions for which only the integer bugs are to be
\* checked, so that need_to_check_bugs() rests on the integer predicate.
OnlyIntegerBugsChecked ==
    \E o \in bug_options :
        /\ need_to_check_integer_bugs(o)
        /\ ~need_to_check_memory_bugs(o)
        /\ need_to_check_bugs(o)

\* C12: when division-by-zero is the only bug flag present, the derived
\* BugOptions has need_to_check_integer_bugs() true,
\* need_to_check_memory_bugs() false, and no other per-kind integer field
\* (nor an aggregate) true.
DivisionByZeroAlone ==
    \A o \in bug_options :
        (argms \cap BugArgs = {DIVISION_BY_ZERO}) =>
            /\ need_to_check_integer_bugs(o)
            /\ ~need_to_check_memory_bugs(o)
            /\ o.division_by_zero
            /\ ~o.integer_overflow
            /\ ~o.integer_underflow
            /\ ~o.integer_coercion_error
            /\ ~o.numeric_truncation_error
            /\ ~o.signedness_conversion_error
            /\ ~o.all_integer_bugs
            /\ ~o.all_memory_bugs
            /\ ~o.all_bugs

\* Witness of C12: BugOptions derived from a command line whose only bug
\* flag is division-by-zero.
DivisionByZeroAloneParsed ==
    /\ bug_options # None
    /\ argms \cap BugArgs = {DIVISION_BY_ZERO}

(***************************************************************************)
(* Properties of CoreOptions (checked under SpecCore).                     *)
(***************************************************************************)

\* C13: after any sequence of apply_to_core_flags calls the statics satisfy
\* DEEP_DEBUG_MODE => DEBUG_MODE, with DEBUG_MODE = debug_mode OR
\* deep_debug_mode, DEEP_DEBUG_MODE = deep_debug_mode and DISABLE_PRINTING =
\* disable_printing of the options applied last.
GlobalFlagsFollowLastApplied ==
    applied # <<>> =>
        LET last == applied[Len(applied)]
        IN  /\ global_DEEP_DEBUG_MODE => global_DEBUG_MODE
            /\ global_DEBUG_MODE = (last.debug_mode \/ last.deep_debug_mode)
            /\ global_DEEP_DEBUG_MODE = last.deep_debug_mode
            /\ global_DISABLE_PRINTING = last.disable_printing

\* Witness of C13: options with deep_debug_mode set and debug_mode clear were
\* applied after options that differ from them in all three fields.
DeepDebugAppliedLast ==
    /\ Len(applied) >= 2
    /\ LET last == applied[Len(applied)]
           prev == applied[Len(applied) - 1]
       IN  /\ last.deep_debug_mode /\ ~last.debug_mode
           /\ ~prev.deep_debug_mode /\ prev.debug_mode
           /\ prev.disable_printing # last.disable_printing
           /\ global_DEBUG_MODE /\ global_DEEP_DEBUG_MODE

(***************************************************************************)
(* Properties of NamingEnv (checked under SpecNaming).                     *)
(*                                                                         *)
(* envs[1] is NamingEnv::new(); call number c was made on envs[calls[c].recv] *)
(* and returned envs[c + 1].                                               *)
(***************************************************************************)
\* The environment call c returned.
Returned(c) == c + 1

\* The environments envs[j] was derived from, envs[j] included.
RECURSIVE Chain(_)
Chain(j) == IF j = 1 THEN {1} ELSE {j} \cup Chain(calls[j - 1].recv)

\* The calls for name that led to envs[j].
CallsOnChain(j, name) ==
    {c \in DOMAIN calls : Returned(c) \in Chain(j) /\ calls[c].name = name}

\* The index a call allocated: None stands for the index 0.
Allocated(c) == IF calls[c].idx = None THEN 0 ELSE CHOOSE v \in calls[c].idx : TRUE

\* The largest element of a non-empty set of numbers.
Max(S) == CHOOSE m \in S : \A v \in S : v <= m

\* C2: a call of create_new_name_index leaves every existing environment
\* (the receiver included) as it was, and any two calls for the same name on
\* the same environment return the same index and equal environments, None
\* when the environment is the empty one.
ReceiverUnchangedAndCallsAgree ==
    [][/\ \A i \in DOMAIN envs : envs'[i] = envs[i]
       /\ \A c1, c2 \in DOMAIN calls' :
              (calls'[c1].recv = calls'[c2].recv /\ calls'[c1].name = calls'[c2].name)
                  => /\ calls'[c1].idx = calls'[c2].idx
                     /\ envs'[Returned(c1)] = envs'[Returned(c2)]
       /\ \A c \in DOMAIN calls' :
              envs'[calls'[c].recv] = NamingEnvNew => calls'[c].idx = None]_vars

\* Witness of C2: the same name was allocated twice on the empty environment
\* and twice on one non-empty environment.
SameCallTwice ==
    /\ \E c1, c2 \in DOMAIN calls :
           /\ c1 # c2
           /\ calls[c1].recv = 1 /\ calls[c2].recv = 1
           /\ calls[c1].name = calls[c2].name
    /\ \E c1, c2 \in DOMAIN calls :
           /\ c1 # c2
           /\ calls[c1].recv = calls[c2].recv
           /\ calls[c1].recv # 1
           /\ calls[c1].name = calls[c2].name

\* C3: along a chain of threaded environments the k-th call for a name
\* returns None for k = 1 and Some(k - 1) for k >= 2, whatever calls for
\* other names come in between; the indices returned for one name along a
\* chain are pairwise distinct.
KthCallReturnsKMinusOne ==
    \A c \in DOMAIN calls :
        LET k == Cardinality(CallsOnChain(Returned(c), calls[c].name))
        IN  /\ calls[c].idx = IF k = 1 THEN None ELSE Some(k - 1)
            /\ \A d \in CallsOnChain(Returned(c), calls[c].name) :
                   d # c => calls[d].idx # calls[c].idx

\* Witness of C3: a third call for a name, with a call for another name
\* between the calls for it.
ThirdCallInterleaved ==
    \E c \in DOMAIN calls :
        /\ Cardinality(CallsOnChain(Returned(c), calls[c].name)) = 3
        /\ calls[c].idx = Some(2)
        /\ \E d \in DOMAIN calls :
               /\ Returned(d) \in Chain(Returned(c))
               /\ calls[d].name # calls[c].name
               /\ \E e \in CallsOnChain(Returned(c), calls[c].name) : e < d

\* C4 as stated: when an environment is returned, its
\* naming_index_counter[name] is the highest index allocated to name so far
\* in any environment derived from the initial one, sibling branches
\* included. (Every environment is the newest one in the state reached by
\* the call that returned it.)
CounterIsHighestAcrossAllScopes ==
    LET j == Len(envs)
    IN  \A name \in DOMAIN envs[j].naming_index_counter :
            envs[j].naming_index_counter[name] =
                Max({Allocated(c) : c \in {d \in DOMAIN calls : calls[d].name = name}})

\* C4 as amended: in every environment, naming_index_counter holds exactly
\* the names allocated along the environment's own chain of ancestors, each
\* with the highest index allocated to it along that chain.
CounterIsHighestOnOwnChain ==
    \A j \in DOMAIN envs :
        /\ DOMAIN envs[j].naming_index_counter =
               {name \in Names : CallsOnChain(j, name) # {}}
        /\ \A name \in DOMAIN envs[j].naming_index_counter :
               envs[j].naming_index_counter[name] =
                   Max({Allocated(c) : c \in CallsOnChain(j, name)})

\* Witness of C4: an environment whose counter for a name is below an index
\* allocated to that name, before the environment was returned, in a branch
\* it was not derived from.
SiblingAllocatedHigher ==
    \E j \in DOMAIN envs :
        \E c \in DOMAIN calls :
            /\ Returned(c) < j
            /\ Returned(c) \notin Chain(j)
            /\ calls[c].name \in DOMAIN envs[j].naming_index_counter
            /\ Allocated(c) > envs[j].naming_index_counter[calls[c].name]

\* C8: in every environment, every name of current_naming_index has a
\* counter, and its current index is at most its counter.
CurrentIndexAtMostCounter ==
    \A j \in DOMAIN envs :
        \A name \in DOMAIN envs[j].current_naming_index :
            /\ name \in DOMAIN envs[j].naming_index_counter
            /\ envs[j].current_naming_index[name] <=
                   envs[j].naming_index_counter[name]

\* Witness of C8: an environment whose current index of a name is 2.
CurrentIndexTwo ==
    \E j \in DOMAIN envs :
        \E name \in DOMAIN envs[j].current_naming_index :
            envs[j].current_naming_index[name] = 2

\* C9: along a chain of environments, each returned by a call on the one
\* before, naming_index_counter[name] never decreases and a name present in
\* the counter stays present.
CounterMonotoneAlongChain ==
    \A j \in DOMAIN envs :
        \A i \in Chain(j) :
            \A name \in DOMAIN envs[i].naming_index_counter :
                /\ name \in DOMAIN envs[j].naming_index_counter
                /\ envs[i].naming_index_counter[name] <=
                       envs[j].naming_index_counter[name]

\* Witness of C9: a chain on which one name's counter grew and another
\* name's counter was carried over a call for the first.
CounterGrewOtherKept ==
    \E j \in DOMAIN envs :
        \E i \in Chain(j) :
            \E n1, n2 \in DOMAIN envs[i].naming_index_counter :
                /\ n1 # n2
                /\ envs[i].naming_index_counter[n1] <
                       envs[j].naming_index_counter[n1]
                /\ envs[i].naming_index_counter[n2] =
                       envs[j].naming_index_counter[n2]

\* C10: get_current_index(name) is None when name was never allocated in
\* the environment's history or its stored index is 0, and Some(stored
\* index) otherwise; it is never Some(0), and create_new_name_index never
\* returns Some(0).
ZeroIndexIsNone ==
    /\ \A j \in DOMAIN envs :
           \A name \in Names :
               LET got == get_current_index(envs[j], name)
                   cur == envs[j].current_naming_index
               IN  /\ got # Some(0)
                   /\ CallsOnChain(j, name) = {} => got = None
                   /\ (name \in DOMAIN cur /\ cur[name] = 0) => got = None
                   /\ (name \in DOMAIN cur /\ cur[name] # 0) => got = Some(cur[name])
    /\ \A c \in DOMAIN calls : calls[c].idx # Some(0)

\* Witness of C10: one environment with a name never allocated, a name
\* whose stored index is 0 and, in a later environment, a stored index
\* above 0.
ZeroStoredAndLooked ==
    /\ \E j \in DOMAIN envs :
           \E n1, n2 \in Names :
               /\ n1 \notin DOMAIN envs[j].current_naming_index
               /\ n2 \in DOMAIN envs[j].current_naming_index
               /\ envs[j].current_naming_index[n2] = 0
               /\ get_current_index(envs[j], n2) = None
    /\ \E j \in DOMAIN envs :
           \E name \in DOMAIN envs[j].current_naming_index :
               get_current_index(envs[j], name) = Some(1)

\* C15: in every reachable environment, branches included,
\* current_naming_index and naming_index_counter are the same map: same
\* keys, same value for every name.
CurrentIndexEqualsCounter ==
    \A j \in DOMAIN envs :
        /\ DOMAIN envs[j].current_naming_index =
               DOMAIN envs[j].naming_index_counter
        /\ \A name \in DOMAIN envs[j].current_naming_index :
               envs[j].current_naming_index[name] =
                   envs[j].naming_index_counter[name]

\* Witness of C15: an environment on a branch (its receiver has another
\* child) holding two names, one of them with an index above 0.
BranchEnvWithTwoNames ==
    \E c, d \in DOMAIN calls :
        /\ c # d
        /\ calls[c].recv = calls[d].recv
        /\ LET e == envs[Returned(c)]
           IN  /\ Cardinality(DOMAIN e.current_naming_index) = 2
               /\ \E name \in DOMAIN e.naming_index_counter :
                      e.naming_index_counter[name] > 0

\* C16: if create_new_name_index(n) on E returned (idx, E'), then
\* E'.get_current_index(n) = idx, and E'.get_current_index(m) =
\* E.get_current_index(m) for every other name m.
ReturnedIndexIsCurrentOthersKept ==
    \A c \in DOMAIN calls :
        /\ get_current_index(envs[Returned(c)], calls[c].name) = calls[c].idx
        /\ \A m \in Names \ {calls[c].name} :
               get_current_index(envs[Returned(c)], m) =
                   get_current_index(envs[calls[c].recv], m)

\* Witness of C16: a first allocation (None) made on an environment in
\* which another name has the current index Some(1), and a call that
\* returned Some(1) on an environment holding another name.
AllocatedBesideOtherName ==
    /\ \E c \in DOMAIN calls :
           /\ calls[c].idx = None
           /\ \E m \in Names \ {calls[c].name} :
                  /\ get_current_index(envs[calls[c].recv], m) = Some(1)
                  /\ get_current_index(envs[Returned(c)], m) = Some(1)
    /\ \E c \in DOMAIN calls :
           /\ calls[c].idx = Some(1)
           /\ \E m \in Names \ {calls[c].name} :
                  m \in DOMAIN envs[calls[c].recv].current_naming_index

====
